---- MODULE Spec2Model ----
(***************************************************************************)
(* A model of the forex ticker service: the Ticker class in its two        *)
(* variants (src/unnamed/part_000, driven by node-cron, and                *)
(* src/unnamed/part_001, driven by setInterval), the Wallet registry       *)
(* (src/models/wallet.ts) and the two HTTP routes (src/index.ts).          *)
(*                                                                         *)
(* Numbers.  A JavaScript number is a record: Num(v) is the finite number  *)
(* v / PriceUnit, so prices are exact multiples of 1 / PriceUnit; NaN,     *)
(* Undefined, PosInf and NegInf are the special values the code meets.     *)
(* Averages and variances are exact rationals Rat(num, den); the code's    *)
(* thresholds are compared by cross-multiplication.  The model's prices    *)
(* are far from every threshold, so IEEE rounding does not change any      *)
(* comparison made here.                                                   *)
(***************************************************************************)
EXTENDS Integers, Sequences, FiniteSets, TLC

\* ------------------------------------------------------------------ bounds

\* Price resolution: Num(v) stands for v / PriceUnit.
PriceUnit == 100
\* Polls (cron or interval callbacks) triggered in one run.
MaxPolls == 3
\* Clock ticks (minutes) in a calendar day of the model.
TicksPerDay == 2
\* /add-ticker requests answered 200 in one run.
MaxTickers == 3
\* Largest count handed to getPriceHistory in the window checks.
MaxCount == 3

\* ------------------------------------------------------- JavaScript values

Num(v) == [k |-> "num", v |-> v]
NaN == [k |-> "NaN", v |-> 0]
Undefined == [k |-> "undefined", v |-> 0]
PosInf == [k |-> "inf", v |-> 1]
NegInf == [k |-> "inf", v |-> -1]

IsFinite(x) == x.k = "num"
IsNumeric(x) == x.k \in {"num", "inf"}

\* a < b on JavaScript numbers: false as soon as one side is NaN/undefined.
Lt(a, b) ==
    /\ IsNumeric(a)
    /\ IsNumeric(b)
    /\ \/ IsFinite(a) /\ IsFinite(b) /\ a.v < b.v
       \/ a = NegInf /\ b # NegInf
       \/ IsFinite(a) /\ b = PosInf

Gt(a, b) == Lt(b, a)

\* a === b
StrictEq(a, b) == a.k # "NaN" /\ a = b

Le(a, b) == Lt(a, b) \/ (IsNumeric(a) /\ a = b)

Ge(a, b) == Le(b, a)

\* Array.prototype.includes (SameValueZero: NaN is found).
Includes(arr, x) == \E i \in DOMAIN arr : arr[i] = x

\* a - b
Minus(a, b) ==
    IF IsFinite(a) /\ IsFinite(b) THEN Num(a.v - b.v)
    ELSE IF a.k = "inf" /\ IsFinite(b) THEN a
    ELSE IF IsFinite(a) /\ b.k = "inf" THEN [b EXCEPT !.v = -b.v]
    ELSE IF a.k = "inf" /\ b.k = "inf" /\ a.v # b.v THEN a
    ELSE NaN

\* The values an array holds.
Values(arr) == {arr[i] : i \in DOMAIN arr}

\* Math.min(...arr): Infinity for no argument, NaN if an argument is NaN.
MathMin(arr) ==
    LET vals == Values(arr)
    IN  IF vals = {} THEN PosInf
        ELSE IF \E x \in vals : ~IsNumeric(x) THEN NaN
        ELSE CHOOSE x \in vals : \A y \in vals : ~Lt(y, x)

\* Math.max(...arr): -Infinity for no argument, NaN if an argument is NaN.
MathMax(arr) ==
    LET vals == Values(arr)
    IN  IF vals = {} THEN NegInf
        ELSE IF \E x \in vals : ~IsNumeric(x) THEN NaN
        ELSE CHOOSE x \in vals : \A y \in vals : ~Lt(x, y)

\* An exact rational num / den (den > 0), in units of 1 / PriceUnit.
Rat(num, den) == [k |-> "num", num |-> num, den |-> den]
RatNaN == [k |-> "NaN", num |-> 0, den |-> 1]

RECURSIVE SumV(_)
SumV(arr) == IF arr = <<>> THEN 0 ELSE Head(arr).v + SumV(Tail(arr))

RECURSIVE SumSq(_)
SumSq(arr) == IF arr = <<>> THEN 0 ELSE Head(arr).v * Head(arr).v + SumSq(Tail(arr))

\* Op applied to the value of v: one statement run on the result of the
\* statements before it (v is computed once, then bound).
Call(Op(_), v) == CHOOSE r \in {Op(x) : x \in {v}} : TRUE

\* Array.prototype.slice(start) of an array of length len: the index before
\* the first element kept.  slice(-0) is slice(0).
SliceStart(len, start) ==
    IF start < 0 THEN (IF len + start > 0 THEN len + start ELSE 0)
    ELSE (IF start < len THEN start ELSE len)

\* Date.prototype.getDate of a timestamp (the model's runs stay within one
\* month, so the day of the month is the day number).
GetDate(t) == (t \div TicksPerDay) + 1

\* ------------------------------------------------------------------ state

VARIABLES
    variant,      \* which Ticker class is built as models/ticker: "cron" or "interval"
    ticker,       \* the fields of one Ticker object
    now,          \* the clock, in ticks (minutes)
    inFlight,     \* the fetchPrice invocations that have started and not yet returned
    polls,        \* polls triggered so far
    histPending,  \* addHistory requests awaiting their response
    refills,      \* daily refill callbacks fired so far
    pushLog,      \* history: every entry pushed to priceHistory, in push order
    bosTrend,     \* history: trendDirection between detectBOS and detectCOC
    script,       \* the quotes a scripted run still has to deliver
    tickers,      \* Wallet.tickers, as the symbols getSymbol() returns
    response      \* the last HTTP response sent

vars == <<variant, ticker, now, inFlight, polls, histPending, refills,
          pushLog, bosTrend, script, tickers, response>>

Variants == {"cron", "interval"}
Trends == {"UP", "DOWN", "NEUTRAL"}

\* priceHistory and scoreHistory keep the latest 100 entries.
HistoryCapacity == 100

\* ----------------------------------------------------------------- Ticker

\* The fields after the constructor has run.
NewTicker(v) ==
    [ price |-> Undefined,
      previousPrice |-> Num(0),
      date |-> Undefined,
      score |-> "NEUTRAL",
      lowPriceOfTheDay |-> IF v = "cron" THEN PosInf ELSE Undefined,
      highPriceOfTheDay |-> IF v = "cron" THEN NegInf ELSE Undefined,
      priceHistory |-> <<>>,
      scoreHistory |-> <<>>,
      supportLevels |-> <<>>,
      resistanceLevels |-> <<>>,
      trendDirection |-> "NEUTRAL" ]

\* Mutant: pop instead of shift, the newest entry is dropped.
PopIfOver(arr) ==
    IF Len(arr) > HistoryCapacity THEN SubSeq(arr, 1, Len(arr) - 1) ELSE arr

\* Array.prototype.shift, applied when the array holds more than 100 entries.
ShiftIfOver(arr) == IF Len(arr) > HistoryCapacity THEN Tail(arr) ELSE arr

\* this.priceHistory.slice(-count).map((entry) => entry.price)
getPriceHistory(this, count) ==
    LET h == this.priceHistory
        s == SliceStart(Len(h), -count)
    IN  [i \in 1..(Len(h) - s) |-> h[s + i].price]

\* Resets the day's extremes when the day has changed, then widens them.
\* currentDay is read from this.date, and this.date is compared with it.
updatePriceOfTheDay(this) ==
    LET currentDay == GetDate(this.date.v)
        reset == GetDate(this.date.v) # currentDay
        low0 == IF reset THEN PosInf ELSE this.lowPriceOfTheDay
        high0 == IF reset THEN NegInf ELSE this.highPriceOfTheDay
    IN  [this EXCEPT
            !.lowPriceOfTheDay = IF Lt(this.price, low0) THEN this.price ELSE low0,
            !.highPriceOfTheDay = IF Gt(this.price, high0) THEN this.price ELSE high0]

\* The prices the levels are taken from: the whole history (cron variant)
\* or the last 20 prices (interval variant).
LevelWindow(this) ==
    IF variant = "cron"
    THEN [i \in DOMAIN this.priceHistory |-> this.priceHistory[i].price]
    ELSE getPriceHistory(this, 20)

\* Mutant: the levels are pushed without the includes test.
updateLevelsWithoutIncludes(this) ==
    LET minPrice == MathMin(LevelWindow(this))
        maxPrice == MathMax(LevelWindow(this))
    IN  [this EXCEPT
            !.supportLevels =
                IF StrictEq(this.price, minPrice)
                THEN Append(this.supportLevels, this.price)
                ELSE this.supportLevels,
            !.resistanceLevels =
                IF StrictEq(this.price, maxPrice)
                THEN Append(this.resistanceLevels, this.price)
                ELSE this.resistanceLevels]

updateSupportResistanceLevels(this) ==
    LET minPrice == MathMin(LevelWindow(this))
        maxPrice == MathMax(LevelWindow(this))
    IN  [this EXCEPT
            !.supportLevels =
                IF StrictEq(this.price, minPrice) /\ ~Includes(this.supportLevels, this.price)
                THEN Append(this.supportLevels, this.price)
                ELSE this.supportLevels,
            !.resistanceLevels =
                IF StrictEq(this.price, maxPrice) /\ ~Includes(this.resistanceLevels, this.price)
                THEN Append(this.resistanceLevels, this.price)
                ELSE this.resistanceLevels]

storePriceData(this) ==
    LET pushed == Append(this.priceHistory,
                         [price |-> this.price, timestamp |-> this.date.v])
    IN  Call(updateSupportResistanceLevels,
             [this EXCEPT !.priceHistory = ShiftIfOver(pushed)])

\* The variance of the last 10 prices, as an exact rational in squared price
\* units; the code returns its square root.  NaN when a price of the window
\* is not a finite number (or the window is empty: 0 / 0).
calculateVolatility(this) ==
    LET w == getPriceHistory(this, 10)
        n == Len(w)
    IN  IF n = 0 \/ \E i \in DOMAIN w : ~IsFinite(w[i]) THEN RatNaN
        ELSE Rat(n * SumSq(w) - SumV(w) * SumV(w), n * n)

\* this.price minus the average of the last 10 prices; the cron variant
\* scales it by 1.2 or by -1.2 against the support and resistance levels.
calculateTrendStrength(this) ==
    LET w == getPriceHistory(this, 10)
        n == Len(w)
        trendStrength ==
            IF n = 0 \/ ~IsFinite(this.price) \/ \E i \in DOMAIN w : ~IsFinite(w[i])
            THEN RatNaN
            ELSE Rat(n * this.price.v - SumV(w), n)
    IN  IF variant = "cron" /\ Le(this.price, MathMin(this.supportLevels))
        THEN [trendStrength EXCEPT !.num = 12 * @, !.den = 10 * @]
        ELSE IF variant = "cron" /\ Ge(this.price, MathMax(this.resistanceLevels))
        THEN [trendStrength EXCEPT !.num = -12 * @, !.den = 10 * @]
        ELSE trendStrength

\* Mutant: the volatility test passes for every number.
VolatilityIsAnything(variance) == variance.k = "num"

\* volatility < 0.02, on the variance: variance < 0.0004, that is
\* num * 10000 < 4 * PriceUnit^2 * den (divided out to stay within 32 bits).
VolatilityIsLow(variance) ==
    /\ variance.k = "num"
    /\ variance.num <= (4 * PriceUnit * PriceUnit * variance.den - 1) \div 10000

\* trendStrength > 0.5 and trendStrength < -0.5
TrendAboveHalf(ts) == ts.k = "num" /\ 2 * ts.num > PriceUnit * ts.den
TrendBelowMinusHalf(ts) == ts.k = "num" /\ 2 * ts.num < -(PriceUnit * ts.den)

\* this.price <= level * 1.01 and this.price >= level * 0.99
WithinOnePercentAbove(p, level) ==
    IsFinite(p) /\ IsFinite(level) /\ 100 * p.v <= 101 * level.v
WithinOnePercentBelow(p, level) ==
    IsFinite(p) /\ IsFinite(level) /\ 100 * p.v >= 99 * level.v

\* Mutant: volatility and trend strength are taken from the prices stored
\* before the current one.
calculateScoreOnEarlierPrices(this) ==
    LET h == this.priceHistory
        earlier == [this EXCEPT !.priceHistory = SubSeq(h, 1, Len(h) - 1)]
        priceChange == Minus(this.price, this.previousPrice)
        volatility == calculateVolatility(earlier)
        trendStrength == calculateTrendStrength(earlier)
        isNearSupport ==
            /\ variant = "cron"
            /\ \E i \in DOMAIN this.supportLevels :
                  WithinOnePercentAbove(this.price, this.supportLevels[i])
        isNearResistance ==
            /\ variant = "cron"
            /\ \E i \in DOMAIN this.resistanceLevels :
                  WithinOnePercentBelow(this.price, this.resistanceLevels[i])
    IN  IF /\ Gt(priceChange, Num(0))
           /\ VolatilityIsLow(volatility)
           /\ TrendAboveHalf(trendStrength)
           /\ ~isNearResistance
        THEN "BUY"
        ELSE IF /\ Lt(priceChange, Num(0))
                /\ VolatilityIsLow(volatility)
                /\ TrendBelowMinusHalf(trendStrength)
                /\ ~isNearSupport
        THEN "SELL"
        ELSE "NEUTRAL"

calculateScore(this) ==
    LET priceChange == Minus(this.price, this.previousPrice)
        volatility == calculateVolatility(this)
        trendStrength == calculateTrendStrength(this)
        isNearSupport ==
            /\ variant = "cron"
            /\ \E i \in DOMAIN this.supportLevels :
                  WithinOnePercentAbove(this.price, this.supportLevels[i])
        isNearResistance ==
            /\ variant = "cron"
            /\ \E i \in DOMAIN this.resistanceLevels :
                  WithinOnePercentBelow(this.price, this.resistanceLevels[i])
    IN  IF /\ Gt(priceChange, Num(0))
           /\ VolatilityIsLow(volatility)
           /\ TrendAboveHalf(trendStrength)
           /\ ~isNearResistance
        THEN "BUY"
        ELSE IF /\ Lt(priceChange, Num(0))
                /\ VolatilityIsLow(volatility)
                /\ TrendBelowMinusHalf(trendStrength)
                /\ ~isNearSupport
        THEN "SELL"
        ELSE "NEUTRAL"

storeScore(this) ==
    LET pushed == Append(this.scoreHistory,
                         [score |-> calculateScore(this), timestamp |-> this.date.v])
    IN  [this EXCEPT !.scoreHistory = ShiftIfOver(pushed)]

\* Mutant: the recent high and low are taken from the prices stored before
\* the current one.
detectBOSOnEarlierPrices(this) ==
    LET h == this.priceHistory
        earlier == [this EXCEPT !.priceHistory = SubSeq(h, 1, Len(h) - 1)]
        recentHigh == MathMax(getPriceHistory(earlier, 10))
        recentLow == MathMin(getPriceHistory(earlier, 10))
    IN  IF Gt(this.price, recentHigh) THEN [this EXCEPT !.trendDirection = "UP"]
        ELSE IF Lt(this.price, recentLow) THEN [this EXCEPT !.trendDirection = "DOWN"]
        ELSE this

detectBOS(this) ==
    LET recentHigh == MathMax(getPriceHistory(this, 10))
        recentLow == MathMin(getPriceHistory(this, 10))
    IN  IF Gt(this.price, recentHigh) THEN [this EXCEPT !.trendDirection = "UP"]
        ELSE IF Lt(this.price, recentLow) THEN [this EXCEPT !.trendDirection = "DOWN"]
        ELSE this

\* Mutant: <= and >= in place of < and >.
detectCOCNotStrict(this) ==
    IF this.trendDirection = "UP" /\ Le(this.price, this.previousPrice)
    THEN [this EXCEPT !.trendDirection = "NEUTRAL"]
    ELSE IF this.trendDirection = "DOWN" /\ Ge(this.price, this.previousPrice)
    THEN [this EXCEPT !.trendDirection = "NEUTRAL"]
    ELSE this

detectCOC(this) ==
    IF this.trendDirection = "UP" /\ Lt(this.price, this.previousPrice)
    THEN [this EXCEPT !.trendDirection = "NEUTRAL"]
    ELSE IF this.trendDirection = "DOWN" /\ Gt(this.price, this.previousPrice)
    THEN [this EXCEPT !.trendDirection = "NEUTRAL"]
    ELSE this

\* The fields getAllData returns (symbol and currency never change).
getAllData(this) ==
    [ price |-> this.price,
      previousPrice |-> this.previousPrice,
      date |-> this.date,
      score |-> this.score,
      priceHistory |-> this.priceHistory,
      scoreHistory |-> this.scoreHistory,
      supportLevels |-> this.supportLevels,
      resistanceLevels |-> this.resistanceLevels,
      trendDirection |-> this.trendDirection,
      lowPriceOfTheDay |-> this.lowPriceOfTheDay,
      highPriceOfTheDay |-> this.highPriceOfTheDay ]

\* ------------------------------------------------------- upstream payloads

\* The quotes the price source serves, in price units: 10 and 11 (a quote
\* string without a comma adds the price 0, an unreadable field NaN).
QuoteValues == {10 * PriceUnit, 11 * PriceUnit}

\* One comma-separated field of the quote string, and parseFloat of it.
NumberField(v) == [text |-> "number", value |-> v]
WordField == [text |-> "word", value |-> 0]
parseFloat(f) == IF f.text = "number" THEN Num(f.value) ELSE NaN

\* data[0]: absent or falsy, a truthy value that is no string, or a string
\* (given by its fields).
Absent == [kind |-> "absent", fields |-> <<>>]
NonString == [kind |-> "nonString", fields |-> <<>>]
Str(fields) == [kind |-> "string", fields |-> fields]

Firsts ==
    {Absent, NonString, Str(<<WordField>>), Str(<<WordField, WordField>>)}
        \cup {Str(<<WordField, NumberField(v)>>) : v \in QuoteValues}

\* A response: its ok flag and the first element of its JSON body.
Payloads ==
    {[ok |-> FALSE, first |-> Absent]} \cup {[ok |-> TRUE, first |-> f] : f \in Firsts}

Quote(v) == [ok |-> TRUE, first |-> Str(<<WordField, NumberField(v)>>)]

\* parseFloat(data?.[0]?.split(",")[1] ?? "0")
ParsePrice(first) ==
    IF Len(first.fields) >= 2 THEN parseFloat(first.fields[2])
    ELSE parseFloat(NumberField(0))

\* ------------------------------------------------------------- fetchPrice

\* The payload makes fetchPrice throw before it touches a field.
ThrowsEarly(payload) == ~payload.ok \/ payload.first.kind = "absent"

\* The payload makes fetchPrice throw at split, after date and previousPrice
\* were assigned.
ThrowsAtSplit(payload) == payload.ok /\ payload.first.kind = "nonString"

Accepted(payload) == payload.ok /\ payload.first.kind = "string"

\* Lines 55-57: date, previousPrice and price are assigned.
AssignSample(this, payload, t) ==
    [this EXCEPT !.date = Num(t),
                 !.previousPrice = this.price,
                 !.price = ParsePrice(payload.first)]

\* Lines 59-62: the sample is stored and scored, and detectBOS has run.
ThroughBOS(this, payload, t) ==
    LET assigned == AssignSample(this, payload, t)
        daily == IF variant = "cron" THEN updatePriceOfTheDay(assigned) ELSE assigned
    IN  Call(detectBOS, Call(storeScore, Call(storePriceData, daily)))

\* Mutant: fetchPrice yields once the sample is stored, before it is scored
\* and before detectBOS and detectCOC have run.
fetchPriceUntilStored(this, payload, t) ==
    IF ThrowsEarly(payload) THEN this
    ELSE IF ThrowsAtSplit(payload)
    THEN [this EXCEPT !.date = Num(t), !.previousPrice = this.price]
    ELSE LET assigned == AssignSample(this, payload, t)
             daily == IF variant = "cron" THEN updatePriceOfTheDay(assigned) ELSE assigned
         IN  Call(storePriceData, daily)

\* The Ticker after fetchPrice has returned, the response being payload and
\* the time t.
fetchPrice(this, payload, t) ==
    IF ThrowsEarly(payload) THEN this
    ELSE IF ThrowsAtSplit(payload)
    THEN [this EXCEPT !.date = Num(t), !.previousPrice = this.price]
    ELSE Call(detectCOC, ThroughBOS(this, payload, t))

\* -------------------------------------------------------------- addHistory

\* pointscount=160: the bars one historical response holds.
HistoryPoints == 160
\* A short historical response (bound).
ShortHistory == 2

\* The close of the i-th daily bar: 9, 10, 11, 9, ...
BarClose(i) == (9 + (i % 3)) * PriceUnit

\* n daily bars, the last one a day before the clock's origin.
Bars(n) ==
    [i \in 1..n |-> [timestamp |-> (i - n - 1) * TicksPerDay, close |-> Num(BarClose(i))]]

\* What the historical request ends with: an error (the request fails, the
\* text is no JSON, or data is no array) or an array of bars, a short one
\* or the 160 bars asked for.
ShortResponses ==
    {[kind |-> "error", bars |-> <<>>], [kind |-> "bars", bars |-> Bars(ShortHistory)]}

FullResponses == {[kind |-> "bars", bars |-> Bars(HistoryPoints)]}

\* One iteration of the forEach: push, update the levels, then shift.
addBar(this, bar) ==
    LET pushed == Append(this.priceHistory,
                         [price |-> bar.close, timestamp |-> bar.timestamp])
        levelled == Call(updateSupportResistanceLevels,
                         [this EXCEPT !.priceHistory = pushed])
    IN  [levelled EXCEPT !.priceHistory = ShiftIfOver(pushed)]

\* data.forEach over bars[lo..hi]: the iterations run in order, each on the
\* result of the one before (the range is halved to keep the evaluation
\* shallow; the order of the iterations is that of the array).
RECURSIVE addBarsRange(_, _, _, _)
addBarsRange(this, bars, lo, hi) ==
    IF lo > hi THEN this
    ELSE IF lo = hi THEN addBar(this, bars[lo])
    ELSE LET mid == (lo + hi) \div 2
         IN  CHOOSE r \in {addBarsRange(firstHalf, bars, mid + 1, hi) :
                              firstHalf \in {addBarsRange(this, bars, lo, mid)}} : TRUE

addBars(this, bars) == addBarsRange(this, bars, 1, Len(bars))

\* The Ticker after addHistory's response has been handled.
addHistory(this, resp) == IF resp.kind = "bars" THEN addBars(this, resp.bars) ELSE this

\* ---------------------------------------------------------------- actions

walletVars == <<tickers, response>>

tickerVars == <<variant, ticker, now, inFlight, polls, histPending, refills, pushLog,
                bosTrend, script>>

\* The state when the /add-ticker handler has run wallet.addTicker(new
\* Ticker(symbol)): the constructor of the cron variant has sent the
\* historical request and scheduled both cron jobs, and scrapePrice has
\* started the first poll (cron variant) or armed the interval (interval
\* variant).  The handler runs to its end without yielding.
TickerStarted(scr) ==
    /\ variant \in Variants
    /\ ticker = NewTicker(variant)
    /\ now = 0
    /\ inFlight = (IF variant = "cron" THEN 1 ELSE 0)
    /\ polls = (IF variant = "cron" THEN 1 ELSE 0)
    /\ histPending = (IF variant = "cron" THEN 1 ELSE 0)
    /\ refills = 0
    /\ pushLog = <<>>
    /\ bosTrend = "NEUTRAL"
    /\ script = scr
    /\ tickers = <<>>
    /\ response = [route |-> "none", symbol |-> <<>>, status |-> 0]

Init == TickerStarted(<<>>)

\* A minute passes and a poll starts, whether or not earlier polls returned.
Poll ==
    /\ now' = now + 1
    /\ inFlight' = inFlight + 1
    /\ polls' = polls + 1
    /\ UNCHANGED <<variant, ticker, histPending, refills, pushLog, bosTrend,
                   script, walletVars>>

\* cron.schedule(TimeTickerMap[symbol], scrapePrice), set by the constructor.
CronTick == variant = "cron" /\ polls < MaxPolls /\ Poll

\* setInterval(..., TimeTicketMap[symbol]), set by scrapePrice.
IntervalTick == variant = "interval" /\ polls < MaxPolls /\ Poll

\* cron.schedule("0 0 2 * * *", addHistory): once a day.
RefillTick ==
    /\ variant = "cron"
    /\ refills < now \div TicksPerDay
    /\ refills' = refills + 1
    /\ histPending' = histPending + 1
    /\ UNCHANGED <<variant, ticker, now, inFlight, polls, pushLog, bosTrend,
                   script, walletVars>>

\* The response of a poll arrives and the rest of fetchPrice runs.
FetchPriceReturns(payload) ==
    /\ inFlight > 0
    /\ inFlight' = inFlight - 1
    /\ ticker' = fetchPrice(ticker, payload, now)
    /\ IF Accepted(payload)
       THEN /\ pushLog' = Append(pushLog, [price |-> ParsePrice(payload.first),
                                           timestamp |-> now])
            /\ bosTrend' = ThroughBOS(ticker, payload, now).trendDirection
       ELSE UNCHANGED <<pushLog, bosTrend>>
    /\ UNCHANGED <<variant, now, polls, histPending, refills, walletVars>>

FetchPrice == \E payload \in Payloads : FetchPriceReturns(payload) /\ UNCHANGED script

\* The response of a historical request arrives and is handled.
AddHistoryReturns(resp) ==
    /\ histPending > 0
    /\ histPending' = histPending - 1
    /\ ticker' = addHistory(ticker, resp)
    /\ pushLog' = pushLog \o [i \in DOMAIN resp.bars |->
                                [price |-> resp.bars[i].close,
                                 timestamp |-> resp.bars[i].timestamp]]
    /\ UNCHANGED <<variant, now, inFlight, polls, refills, bosTrend,
                   script, walletVars>>

AddHistory == \E resp \in ShortResponses : AddHistoryReturns(resp)

Next == CronTick \/ IntervalTick \/ RefillTick \/ FetchPrice \/ AddHistory

\* One ticker under every interleaving of its triggers and responses, the
\* historical responses being short.
Spec == Init /\ [][Next]_vars

\* ------------------------------------------------------------------ reads

\* GET /get/:symbol for the ticker: the handler answers 200 with getAllData().
\* It runs between the continuations of fetchPrice and of addHistory, which
\* hold no await of their own.
GetAllData ==
    /\ response' = [route |-> "get", symbol |-> <<>>, status |-> 200,
                    data |-> getAllData(ticker)]
    /\ UNCHANGED <<tickers, tickerVars>>

\* The triggers and responses of Spec, up to a read.
BeforeRead == response.route = "none" /\ Next

NextRead == BeforeRead \/ GetAllData

\* One ticker under every interleaving of its triggers and responses, read
\* at any point.
SpecRead == Init /\ [][NextRead]_vars

\* ---------------------------------------------------------- scripted runs

\* How far past the capacity of the histories the long run goes.
Overrun == 2

Repeat(v, n) == [i \in 1..n |-> v]

\* The quote sequences of the scripted runs: nine 10s then 11, nine 10s then
\* 9, ten 10s, nine 10s then one price unit more (and one less), 9 then 11,
\* 11 then 9, and a run longer than the histories that alternates 11, 10.
Scripts ==
    { Repeat(10 * PriceUnit, 9) \o <<11 * PriceUnit>>,
      Repeat(10 * PriceUnit, 9) \o <<9 * PriceUnit>>,
      Repeat(10 * PriceUnit, 10),
      Repeat(10 * PriceUnit, 9) \o <<10 * PriceUnit + 1>>,
      Repeat(10 * PriceUnit, 9) \o <<10 * PriceUnit - 1>>,
      <<9 * PriceUnit, 11 * PriceUnit>>,
      <<11 * PriceUnit, 9 * PriceUnit>>,
      [i \in 1..(HistoryCapacity + Overrun) |-> (10 + (i % 2)) * PriceUnit] }

InitScript == \E scr \in Scripts : TickerStarted(scr)

\* The next poll of a run whose polls do not overlap.
ScriptedTick == script # <<>> /\ inFlight = 0 /\ Poll

\* The poll in flight is answered with the next quote of the script.
ScriptedFetch ==
    /\ script # <<>>
    /\ FetchPriceReturns(Quote(Head(script)))
    /\ script' = Tail(script)

\* The historical request sent by the constructor is answered with the 160
\* bars asked for, within the first MaxPolls polls.
AddHistoryFull ==
    /\ polls <= MaxPolls
    /\ \E resp \in FullResponses : AddHistoryReturns(resp)

\* The daily refill fires when the script has been delivered, and is
\* answered with the 160 bars asked for.
ScriptedRefill == script = <<>> /\ refills = 0 /\ RefillTick

AddHistoryRefill ==
    /\ refills > 0
    /\ \E resp \in FullResponses : AddHistoryReturns(resp)

NextScript ==
    ScriptedTick \/ ScriptedFetch \/ AddHistoryFull \/ ScriptedRefill \/ AddHistoryRefill

\* One ticker fed a scripted sequence of quotes, one poll at a time, the
\* historical responses being full ones.
SpecScript == InitScript /\ [][NextScript]_vars


\* ------------------------------------------------------------- detectCOC

\* The numbers detectCOC is tried on.
CocValues ==
    {Undefined, NaN, Num(0), Num(9 * PriceUnit), Num(10 * PriceUnit), Num(11 * PriceUnit)}

\* A Ticker on which detectBOS has just run: any trend, any two prices.
InitCOC ==
    /\ variant \in Variants
    /\ \E t \in Trends, p \in CocValues, q \in CocValues :
          /\ ticker = [NewTicker(variant) EXCEPT !.trendDirection = t,
                                                 !.price = p,
                                                 !.previousPrice = q]
          /\ bosTrend = t
    /\ now = 0
    /\ inFlight = 0
    /\ polls = 0
    /\ histPending = 0
    /\ refills = 0
    /\ pushLog = <<>>
    /\ script = <<>>
    /\ tickers = <<>>
    /\ response = [route |-> "none", symbol |-> <<>>, status |-> 0]

DetectCOC ==
    /\ ticker' = detectCOC(ticker)
    /\ UNCHANGED <<variant, now, inFlight, polls, histPending, refills, pushLog,
                   bosTrend, script, walletVars>>

\* detectCOC applied to every trend and pair of prices.
SpecCOC == InitCOC /\ [][DetectCOC]_vars

\* ----------------------------------------------------------------- Wallet

\* A symbol is the sequence of its characters.
UpperChar(c) ==
    CASE c = "x" -> "X"
      [] c = "a" -> "A"
      [] c = "u" -> "U"
      [] c = "g" -> "G"
      [] OTHER -> c

\* String.prototype.toUpperCase
toUpperCase(sym) == [i \in DOMAIN sym |-> UpperChar(sym[i])]

\* The symbols requested: XAU and XAG in several letter cases.
RequestSymbols ==
    { <<"X", "A", "U">>, <<"x", "a", "u">>, <<"X", "a", "u">>,
      <<"X", "A", "G">>, <<"x", "a", "g">> }

\* Wallet.getTicker: the index of the first ticker whose getSymbol() is
\* symbol, 0 for undefined.
getTicker(symbol) ==
    IF \E i \in DOMAIN tickers : tickers[i] = symbol
    THEN CHOOSE i \in DOMAIN tickers :
            tickers[i] = symbol /\ \A j \in 1..(i - 1) : tickers[j] # symbol
    ELSE 0

Respond(route, symbol, status) == [route |-> route, symbol |-> symbol, status |-> status]

\* GET /add-ticker?symbol=...; the empty sequence is a missing symbol.
AddTicker(symbol) ==
    /\ IF symbol = <<>>
       THEN /\ response' = Respond("add-ticker", symbol, 400)
            /\ UNCHANGED tickers
       ELSE IF getTicker(symbol) # 0
       THEN /\ response' = Respond("add-ticker", symbol, 400)
            /\ UNCHANGED tickers
       ELSE /\ Len(tickers) < MaxTickers
            /\ tickers' = Append(tickers, toUpperCase(symbol))
            /\ response' = Respond("add-ticker", symbol, 200)
    /\ UNCHANGED tickerVars

\* GET /get/:symbol
GetTicker(symbol) ==
    /\ response' = Respond("get", symbol, IF getTicker(symbol) = 0 THEN 404 ELSE 200)
    /\ UNCHANGED <<tickers, tickerVars>>

AddTickerRequest == \E symbol \in RequestSymbols \cup {<<>>} : AddTicker(symbol)

GetRequest == \E symbol \in RequestSymbols : GetTicker(symbol)

NextWallet == AddTickerRequest \/ GetRequest

\* The registry under every sequence of requests.
SpecWallet == Init /\ [][NextWallet]_vars


\* ------------------------------------------------------------ properties

\* The last n entries of seq (all of it when it is shorter).
LastN(seq, n) ==
    IF n >= Len(seq) THEN seq ELSE SubSeq(seq, Len(seq) - n + 1, Len(seq))

PricesOf(h) == [i \in DOMAIN h |-> h[i].price]

\* A step in which a fetchPrice returns having accepted its sample, and one
\* in which it returns without having accepted one.
AcceptedStep == inFlight' = inFlight - 1 /\ Len(pushLog') = Len(pushLog) + 1
FailedStep == inFlight' = inFlight - 1 /\ pushLog' = pushLog

\* The entries of the log that are samples (bars are dated before 0).
IsSample(e) == e.timestamp >= 0
OnlySamples(log) == \A i \in DOMAIN log : IsSample(log[i])
LastSample(log) ==
    log[CHOOSE i \in DOMAIN log :
            IsSample(log[i]) /\ \A j \in DOMAIN log : j > i => ~IsSample(log[j])]

NoDuplicates(arr) == \A i, j \in DOMAIN arr : i # j => arr[i] # arr[j]
IsPrefix(a, b) == Len(a) <= Len(b) /\ a = SubSeq(b, 1, Len(a))

\* C1: when fetchPrice accepts a sample whose price is strictly greater than
\* the maximum of the (up to 10) prices accepted before it, trendDirection
\* is UP right after detectBOS; DOWN when it is strictly below their minimum.
BreakOfStructureSetsTrend ==
    [][ (AcceptedStep /\ OnlySamples(pushLog) /\ pushLog # <<>>) =>
          /\ Gt(ticker'.price, MathMax(getPriceHistory(ticker, 10))) => bosTrend' = "UP"
          /\ Lt(ticker'.price, MathMin(getPriceHistory(ticker, 10))) => bosTrend' = "DOWN"
      ]_vars

\* C2: a fetchPrice that fails leaves every field getAllData returns as it
\* was before the call.
FailedFetchChangesNothing ==
    [][ FailedStep => getAllData(ticker') = getAllData(ticker) ]_vars

\* C3: a fresh ticker fed 10 (nine times) then 11 scores BUY on the tenth
\* sample; fed 10 (nine times) then 9 it scores SELL on the tenth sample.
ClassifierTestVectors ==
    /\ PricesOf(pushLog) = Repeat(Num(10 * PriceUnit), 9) \o <<Num(11 * PriceUnit)>>
          => ticker.scoreHistory[10].score = "BUY"
    /\ PricesOf(pushLog) = Repeat(Num(10 * PriceUnit), 9) \o <<Num(9 * PriceUnit)>>
          => ticker.scoreHistory[10].score = "SELL"

\* C4: priceHistory and scoreHistory hold at most 100 entries, and
\* priceHistory is the last min(k, 100) of the k entries pushed so far, in
\* push order.
BoundedFifoHistories ==
    /\ Len(ticker.priceHistory) <= HistoryCapacity
    /\ Len(ticker.scoreHistory) <= HistoryCapacity
    /\ ticker.priceHistory = LastN(pushLog, HistoryCapacity)

\* C4 witness: more than 100 entries were pushed, samples and bars among
\* them, and both histories are full.
FifoHasEvicted ==
    /\ Len(pushLog) > HistoryCapacity
    /\ ~OnlySamples(pushLog)
    /\ IsSample(pushLog[Len(pushLog)])
    /\ Len(ticker.priceHistory) = HistoryCapacity
    /\ Len(ticker.scoreHistory) = HistoryCapacity

\* C5: for every n >= 0, getPriceHistory(n) is the last min(n, L) prices of
\* priceHistory, oldest first.
WindowIsLastMin ==
    \A n \in 0..MaxCount :
        getPriceHistory(ticker, n) =
            LastN(PricesOf(ticker.priceHistory),
                  IF n < Len(ticker.priceHistory) THEN n ELSE Len(ticker.priceHistory))

\* C6: when an accepted sample falls on another calendar day than the
\* accepted sample before it, the day's low and high both equal its price
\* after it (cron variant; samples with a finite price).
DayRolloverResets ==
    [][ ( /\ variant = "cron"
          /\ AcceptedStep
          /\ \E i \in DOMAIN pushLog : IsSample(pushLog[i])
          /\ GetDate(LastSample(pushLog).timestamp) # GetDate(now)
          /\ IsFinite(ticker'.price) ) =>
          /\ ticker'.lowPriceOfTheDay = ticker'.price
          /\ ticker'.highPriceOfTheDay = ticker'.price
      ]_vars

\* C7: the wallet never holds two tickers with the same symbol.
RegistryIsUnique == NoDuplicates(tickers)

\* C8: no value is ever removed from supportLevels or resistanceLevels, and
\* no value appears twice in either.
LevelsGrowWithoutDuplicates ==
    [][ /\ IsPrefix(ticker.supportLevels, ticker'.supportLevels)
        /\ IsPrefix(ticker.resistanceLevels, ticker'.resistanceLevels)
        /\ NoDuplicates(ticker'.supportLevels)
        /\ NoDuplicates(ticker'.resistanceLevels)
      ]_vars

\* C8 witness: two support levels are held, and the first of them was the
\* price of two accepted samples.
LevelMetTwice ==
    /\ Len(ticker.supportLevels) >= 2
    /\ \E i, j \in DOMAIN pushLog :
          /\ i < j
          /\ IsSample(pushLog[i])
          /\ IsSample(pushLog[j])
          /\ pushLog[i].price = ticker.supportLevels[1]
          /\ pushLog[j].price = ticker.supportLevels[1]

\* C9: detectCOC turns UP into NEUTRAL when price < previousPrice, DOWN into
\* NEUTRAL when price > previousPrice, and leaves trendDirection unchanged in
\* every other case.
ChangeOfCharacter ==
    [][ ticker'.trendDirection =
          IF ticker.trendDirection = "UP"
             /\ IsFinite(ticker.price) /\ IsFinite(ticker.previousPrice)
             /\ ticker.price.v < ticker.previousPrice.v
          THEN "NEUTRAL"
          ELSE IF ticker.trendDirection = "DOWN"
                  /\ IsFinite(ticker.price) /\ IsFinite(ticker.previousPrice)
                  /\ ticker.price.v > ticker.previousPrice.v
          THEN "NEUTRAL"
          ELSE ticker.trendDirection
      ]_vars

\* C9 witness: detectCOC has run on an UP trend with price < previousPrice
\* and has left NEUTRAL.
UpTrendReversed ==
    /\ bosTrend = "UP"
    /\ Lt(ticker.price, ticker.previousPrice)
    /\ ticker.trendDirection = "NEUTRAL"

\* C10: at most one fetchPrice invocation is in flight at any time.
SingleFetchInFlight == inFlight <= 1

\* The samples among the entries pushed so far.
SamplesOf(log) == {i \in DOMAIN log : IsSample(log[i])}

\* C11: a read through getAllData never shows an accepted sample applied in
\* part: the price is that of the last accepted sample, that sample is in
\* priceHistory, every accepted sample has its score, the last score bears
\* the sample's timestamp, the day's extremes enclose a finite price (cron
\* variant), and a price that is the lowest (highest) of the window the
\* levels are taken from is a support (resistance) level.
ReadSeesWholeSamples ==
    (response.route = "get" /\ SamplesOf(pushLog) # {}) =>
        LET data == response.data
            last == LastSample(pushLog)
            w == IF variant = "cron" THEN PricesOf(data.priceHistory)
                 ELSE LastN(PricesOf(data.priceHistory), 20)
        IN  /\ data.price = last.price
            /\ \E i \in DOMAIN data.priceHistory :
                  data.priceHistory[i] = [price |-> last.price, timestamp |-> last.timestamp]
            /\ Len(data.scoreHistory) = Cardinality(SamplesOf(pushLog))
            /\ data.scoreHistory[Len(data.scoreHistory)].timestamp = last.timestamp
            /\ (variant = "cron" /\ IsFinite(data.price)) =>
                  /\ Le(data.lowPriceOfTheDay, data.price)
                  /\ Ge(data.highPriceOfTheDay, data.price)
            /\ StrictEq(data.price, MathMin(w)) => Includes(data.supportLevels, data.price)
            /\ StrictEq(data.price, MathMax(w)) => Includes(data.resistanceLevels, data.price)
            /\ data.trendDirection \in Trends

\* C11 witness: a read taken while another fetchPrice is still in flight and
\* after samples and historical bars were both applied.
ReadAmongOverlappingFetches ==
    /\ response.route = "get"
    /\ inFlight >= 1
    /\ Cardinality(SamplesOf(pushLog)) >= 2
    /\ ~OnlySamples(pushLog)

\* this.price minus the average of the last 10 prices, with no adjustment.
PriceMinusAverage(this) ==
    LET w == getPriceHistory(this, 10)
    IN  IF Len(w) = 0 \/ ~IsFinite(this.price) \/ \E i \in DOMAIN w : ~IsFinite(w[i])
        THEN RatNaN
        ELSE Rat(Len(w) * this.price.v - SumV(w), Len(w))

\* Two results of calculateTrendStrength are the same number.
SameNumber(a, b) ==
    IF a.k = "num" /\ b.k = "num" THEN a.num * b.den = b.num * a.den ELSE a.k = b.k

\* The trend strength when the comparison against an empty level set is
\* skipped: 1.2 times the difference at or below the lowest support level,
\* else -1.2 times it at or above the highest resistance level.
TrendSkippingEmptyLevels(this) ==
    LET ts == PriceMinusAverage(this)
    IN  IF this.supportLevels # <<>> /\ Le(this.price, MathMin(this.supportLevels))
        THEN [ts EXCEPT !.num = 12 * @, !.den = 10 * @]
        ELSE IF this.resistanceLevels # <<>>
                /\ Ge(this.price, MathMax(this.resistanceLevels))
        THEN [ts EXCEPT !.num = -12 * @, !.den = 10 * @]
        ELSE ts

\* C12: when fetchPrice accepts a sample and calculateTrendStrength runs with
\* supportLevels empty it applies no 1.2 factor, and with resistanceLevels
\* empty no -1.2 factor: the comparison against the empty set is skipped, and
\* with both empty the result is the price minus the 10-sample average
\* (cron variant; the fields calculateTrendStrength reads are the same after
\* the sample as when it ran).
EmptyLevelsAreSkipped ==
    [][ ( /\ variant = "cron"
          /\ AcceptedStep
          /\ ticker'.supportLevels = <<>> \/ ticker'.resistanceLevels = <<>> ) =>
          SameNumber(calculateTrendStrength(ticker'), TrendSkippingEmptyLevels(ticker'))
      ]_vars

\* C13: after every accepted sample, the score field getAllData returns is
\* the score storeScore appended to scoreHistory for that sample.
CurrentSignalIsStored ==
    [][ AcceptedStep =>
          getAllData(ticker').score =
              ticker'.scoreHistory[Len(ticker'.scoreHistory)].score
      ]_vars

\* C13 witness: two samples were scored, the second with a rising price, and
\* the score field is the score appended last.
RisingSampleScored ==
    /\ Len(ticker.scoreHistory) >= 2
    /\ OnlySamples(pushLog)
    /\ Gt(ticker.price, ticker.previousPrice)
    /\ getAllData(ticker).score = ticker.scoreHistory[Len(ticker.scoreHistory)].score

\* C14: every entry storeScore appends to scoreHistory has score NEUTRAL.
BuyAndSellUnreachable ==
    \A i \in DOMAIN ticker.scoreHistory : ticker.scoreHistory[i].score = "NEUTRAL"

\* C14 witness: the tenth sample of a quiet run rose (volatility below 0.02,
\* price above the one before) and was scored NEUTRAL.
QuietRiseScoredNeutral ==
    /\ Len(ticker.scoreHistory) = 10
    /\ OnlySamples(pushLog)
    /\ Gt(ticker.price, ticker.previousPrice)
    /\ VolatilityIsLow(calculateVolatility(ticker))
    /\ ticker.scoreHistory[10].score = "NEUTRAL"

\* C15: trendDirection is NEUTRAL in every reachable state.
TrendStaysNeutral == ticker.trendDirection = "NEUTRAL"

\* C15 witness: the last accepted sample is strictly above every price
\* stored before it, detectBOS and detectCOC have run, and trendDirection is
\* NEUTRAL.
NewHighLeftNeutral ==
    LET h == ticker.priceHistory
    IN  /\ Len(h) >= 2
        /\ IsSample(pushLog[Len(pushLog)])
        /\ h[Len(h)].price = ticker.price
        /\ \A i \in 1..(Len(h) - 1) : Gt(ticker.price, h[i].price)
        /\ Len(ticker.scoreHistory) >= 1
        /\ ticker.trendDirection = "NEUTRAL"

\* C16: in the cron variant the timestamps of priceHistory never decrease
\* from the oldest entry to the newest.
HistoryIsChronological ==
    variant = "cron" =>
        \A i \in 1..(Len(ticker.priceHistory) - 1) :
            ticker.priceHistory[i].timestamp <= ticker.priceHistory[i + 1].timestamp

\* C17: when /add-ticker?symbol=s has answered 200, a /get/s that follows
\* with the same string s answers 200.
AddThenGetFinds ==
    [][ ( /\ response.route = "add-ticker"
          /\ response.status = 200
          /\ response'.route = "get"
          /\ response'.symbol = response.symbol ) =>
          response'.status = 200
      ]_vars

====
